---- MODULE Spec2Model ----
(***************************************************************************)
(* Model of PIL/WebPImagePlugin.py: the prober _accept, the opening of a   *)
(* file (_open: background colour, metadata chunks, cursor), the frame     *)
(* cursor of WebPImageFile (seek / _reset / _get_next / _seek / load /     *)
(* tell) over a forward-only animation decoder, and the animation          *)
(* assembler _save_all.                                                    *)
(*                                                                         *)
(* Four specifications: Spec (seeks and loads on an opened file),          *)
(* SpecSave (one _save_all on a positioned image), SpecOpen (one _open)    *)
(* and SpecAccept (one _accept).                                           *)
(*                                                                         *)
(* The animation-capable code path is modelled (_webp.HAVE_WEBPMUX true);  *)
(* the legacy single-frame branches (lines 31-37, 155-157, 255-283) have   *)
(* no cursor and no encoder session.                                       *)
(***************************************************************************)
EXTENDS Integers, Sequences, FiniteSets, TLC

\* im:   the WebPImageFile (cursor fields, info, fp, its decoder);
\* last: what the caller observed of the most recent operation (of a probe,
\*       an open, a seek, a load or a _save_all);
\* hist: the caller's past seeks and failed loads.
VARIABLES im, last, hist

vars == <<im, last, hist>>

(* ------------------------------ bounds -------------------------------- *)

\* Largest frame_count of the opened container.
MaxFrames == 3

\* Largest per-frame duration reported by the decoder (end-timestamps are
\* the running sums of the durations).
MaxDur == 2

(* --------------------------- Python values ---------------------------- *)

\* Python's None, as returned by _decoder.get_next() on a decode failure.
None == <<>>

\* A value of self.fp / info["timestamp"] / info["duration"] before any frame
\* has been loaded (the keys are not set, fp is still the file).
Unset == -1

\* A call that returned normally / raised.
Return(self, ret) == [self |-> self, exc |-> "none", ret |-> ret]
Raise(self, exc) == [self |-> self, exc |-> exc, ret |-> None]

\* Statement sequencing: the statements K that follow a call with outcome r
\* run if the call returned; if it raised, the exception propagates.
Try(r, K(_)) == IF r.exc # "none" THEN r ELSE K(r)

\* The packed background colour is a Python integer of up to 32 bits, more than
\* the checker's integers hold: such an integer is kept as its binary
\* digits, least significant first, without leading zeros (0 is <<>>).
RECURSIVE Bits(_)
Bits(n) == IF n = 0 THEN <<>> ELSE <<n % 2>> \o Bits(n \div 2)

\* The integer of at most 31 binary digits.
RECURSIVE IntOf(_)
IntOf(x) == IF x = <<>> THEN 0 ELSE Head(x) + 2 * IntOf(Tail(x))

\* The binary digits without leading zeros.
RECURSIVE Normal(_)
Normal(x) ==
    IF x = <<>> \/ x[Len(x)] = 1 THEN x ELSE Normal(SubSeq(x, 1, Len(x) - 1))

\* Digit i (from 1) of x.
BitAt(x, i) == IF i <= Len(x) THEN x[i] ELSE 0

\* x << n.
Shl(x, n) == IF x = <<>> THEN <<>> ELSE [i \in 1..n |-> 0] \o x

\* x >> n.
Shr(x, n) == IF Len(x) <= n THEN <<>> ELSE SubSeq(x, n + 1, Len(x))

\* x | y, bit by bit.
BitOr(x, y) ==
    [i \in 1..(IF Len(x) >= Len(y) THEN Len(x) ELSE Len(y)) |->
        IF BitAt(x, i) = 1 \/ BitAt(y, i) = 1 THEN 1 ELSE 0]

\* x & y, bit by bit.
BitAnd(x, y) ==
    Normal([i \in 1..(IF Len(x) <= Len(y) THEN Len(x) ELSE Len(y)) |->
               IF BitAt(x, i) = 1 /\ BitAt(y, i) = 1 THEN 1 ELSE 0])

\* The truth value of an optional bytes object x (None, or the bytes x.v):
\* None and the empty bytes are false.
truth(x) == ~x.is_none /\ Len(x.v) > 0

(* ------------------- the decoder (_webp.WebPAnimDecoder) -------------- *)

\* The running sums of a sequence of durations: frame k ends at EndOf(d, k).
RECURSIVE EndOf(_, _)
EndOf(durs, k) == IF k = 0 THEN 0 ELSE EndOf(durs, k - 1) + durs[k]

\* The frames a decoder holds: pixel bytes (a token naming the frame) and
\* the cumulative end-timestamp.
FramesOf(durs) ==
    [k \in 1..Len(durs) |-> [data |-> 100 + (k - 1), timestamp |-> EndOf(durs, k)]]

\* The names of the metadata chunks a container may hold.
ChunkNames == {"ICCP", "EXIF", "XMP "}

\* A chunk that is absent, and a chunk holding the bytes v.
Absent == [is_none |-> TRUE, v |-> <<>>]
Chunk(v) == [is_none |-> FALSE, v |-> v]

\* A container file: the durations of its frames, its pixel layout, its
\* packed background colour and its metadata chunks.
File(durs, mode, bgcolor, chunks) ==
    [durs |-> durs, mode |-> mode, bgcolor |-> bgcolor, chunks |-> chunks]

\* A file of plain frames: background 0 and no metadata chunk.
PlainFile(durs, mode) == File(durs, mode, Bits(0), [c \in ChunkNames |-> Absent])

\* A decoder session over a file: pos frames consumed since the last reset;
\* fail_in = k > 0 makes the k-th coming get_next() report a decode failure;
\* calls is the trace of calls made on the session during the current
\* operation.
NewDecoder(file) ==
    [frames |-> FramesOf(file.durs), pos |-> 0, fail_in |-> 0, calls |-> <<>>,
     mode |-> file.mode, bgcolor |-> file.bgcolor, chunks |-> file.chunks]

\* _decoder.get_info(): the background colour, the frame count and the
\* pixel layout (width, height and loop count are only stored).
decoder_get_info(d) ==
    [bgcolor |-> d.bgcolor, frame_count |-> Len(d.frames), mode |-> d.mode]

\* _decoder.get_chunk(name): the bytes of the chunk, or None if absent.
decoder_get_chunk(d, name) == d.chunks[name]

\* _decoder.reset(): rewind to frame zero.
decoder_reset(d) == [d EXCEPT !.pos = 0, !.calls = Append(@, "reset")]

\* _decoder.get_next(): (pixel_bytes, end_timestamp) of the next frame, or
\* None when decoding fails or no frame is left.
decoder_get_next(d) ==
    IF d.fail_in = 1 \/ d.pos >= Len(d.frames)
    THEN [d |-> [d EXCEPT !.fail_in = 0, !.calls = Append(@, "get_next")],
          ret |-> None]
    ELSE [d |-> [d EXCEPT !.pos = @ + 1,
                          !.fail_in = IF @ > 0 THEN @ - 1 ELSE 0,
                          !.calls = Append(@, "get_next")],
          ret |-> <<d.frames[d.pos + 1].data, d.frames[d.pos + 1].timestamp>>]

(* ------------------------------ _accept ------------------------------- *)

\* Bytes objects are sequences of byte values: b"RIFF", b"WEBP" and the
\* identifiers b"VP8 ", b"VP8X", b"VP8L".
RIFF == <<82, 73, 70, 70>>
WEBP == <<87, 69, 66, 80>>
VP8_ == <<86, 80, 56, 32>>
VP8X == <<86, 80, 56, 88>>
VP8L == <<86, 80, 56, 76>>

\* The identifiers without the lossless one.
_VP8_MODES_WITHOUT_LOSSLESS ==
    [k \in {VP8_, VP8X} |-> IF k = VP8_ THEN "RGB" ELSE "RGBA"]

\* _VP8_MODES_BY_IDENTIFIER, lines 10-14.
_VP8_MODES_BY_IDENTIFIER ==
    [k \in {VP8_, VP8X, VP8L} |-> IF k = VP8_ THEN "RGB" ELSE "RGBA"]

\* s[a:b] for 0 <= a <= b: both ends are clipped to the length of s, so a
\* slice never fails and may be shorter than b - a.
Slice(s, a, b) ==
    SubSeq(s, (IF a < Len(s) THEN a ELSE Len(s)) + 1, IF b < Len(s) THEN b ELSE Len(s))

\* _accept that does not look at the identifier.
_accept_magic_only(prefix) ==
    Return(prefix, Slice(prefix, 0, 4) = RIFF /\ Slice(prefix, 8, 12) = WEBP)

\* _accept(prefix), lines 17-22.
_accept(prefix) ==
    LET is_riff_file_format == Slice(prefix, 0, 4) = RIFF
        is_webp_file == Slice(prefix, 8, 12) = WEBP
        is_valid_vp8_mode == Slice(prefix, 12, 16) \in DOMAIN _VP8_MODES_BY_IDENTIFIER
    IN  Return(prefix, is_riff_file_format /\ is_webp_file /\ is_valid_vp8_mode)

(* --------------------------- WebPImageFile ---------------------------- *)

\* seek with the upper bound off by one.
seek_off_by_one(self, frame) ==
    IF frame > self._n_frames \/ frame < 0
    THEN Raise(self, "EOFError")
    ELSE Return([self EXCEPT !.__logical_frame = frame], None)

\* seek that also drops the loaded frame.
seek_invalidates(self, frame) ==
    IF frame >= self._n_frames \/ frame < 0
    THEN Raise(self, "EOFError")
    ELSE Return([self EXCEPT !.__logical_frame = frame, !.__loaded = -1], None)

\* seek(frame), lines 88-96.
seek(self, frame) ==
    IF frame >= self._n_frames
    THEN Raise(self, "EOFError")
    ELSE IF frame < 0
         THEN Raise(self, "EOFError")
         ELSE Return([self EXCEPT !.__logical_frame = frame], None)

\* _reset that leaves the running timestamp.
_reset_keeps_timestamp(self, reset) ==
    [self EXCEPT !._decoder = IF reset THEN decoder_reset(@) ELSE @,
                 !.__physical_frame = 0,
                 !.physical_trace = Append(@, 0),
                 !.__loaded = -1]

\* _reset that steps the physical frame back by one.
_reset_one_back(self, reset) ==
    [self EXCEPT !._decoder = IF reset THEN decoder_reset(@) ELSE @,
                 !.__physical_frame = IF @ > 0 THEN @ - 1 ELSE 0,
                 !.physical_trace =
                     Append(@, IF self.__physical_frame > 0
                               THEN self.__physical_frame - 1 ELSE 0),
                 !.__loaded = -1,
                 !.__timestamp = 0]

\* _reset that never rewinds the decoder.
_reset_leaves_decoder(self, reset) ==
    [self EXCEPT !.__physical_frame = 0,
                 !.physical_trace = Append(@, 0),
                 !.__loaded = -1,
                 !.__timestamp = 0]

\* _reset(reset=True), lines 98-103.
_reset(self, reset) ==
    [self EXCEPT !._decoder = IF reset THEN decoder_reset(@) ELSE @,
                 !.__physical_frame = 0,
                 !.physical_trace = Append(@, 0),
                 !.__loaded = -1,
                 !.__timestamp = 0]

\* Lines 116-121 of _get_next: the duration of the frame ret = (data,
\* timestamp) and its start.
frame_of(self, data, timestamp, duration) ==
    Return([self EXCEPT !.__timestamp = timestamp],
           <<data, timestamp - duration, duration>>)

\* Lines 107-108 of _get_next: the physical frame counted up and the
\* decoder, as get_next() left it, d.
advanced(self, d) ==
    [self EXCEPT !._decoder = d,
                 !.__physical_frame = @ + 1,
                 !.physical_trace = Append(@, self.__physical_frame + 1)]

\* Lines 108-121 of _get_next, with g the outcome of _decoder.get_next().
got_next(self, g) ==
    IF g.ret = None
    THEN Raise(seek(_reset(advanced(self, g.d), TRUE), 0).self, "EOFError")
    ELSE frame_of(advanced(self, g.d),
                  g.ret[1], g.ret[2], g.ret[2] - self.__timestamp)

\* got_next that raises on a decode failure without resetting.
got_next_no_reset(self, g) ==
    IF g.ret = None
    THEN Raise(advanced(self, g.d), "EOFError")
    ELSE frame_of(advanced(self, g.d),
                  g.ret[1], g.ret[2], g.ret[2] - self.__timestamp)

\* got_next that resets on a decode failure but leaves the logical frame.
got_next_no_seek0(self, g) ==
    IF g.ret = None
    THEN Raise(_reset(advanced(self, g.d), TRUE),
               "EOFError")
    ELSE frame_of(advanced(self, g.d),
                  g.ret[1], g.ret[2], g.ret[2] - self.__timestamp)

\* _get_next that raises on a decode failure without resetting.
_get_next_no_reset(self) == got_next_no_reset(self, decoder_get_next(self._decoder))

\* _get_next that resets on a decode failure but leaves the logical frame.
_get_next_no_seek0(self) == got_next_no_seek0(self, decoder_get_next(self._decoder))

\* _get_next(), lines 105-121: returns (data, timestamp, duration).
_get_next(self) == got_next(self, decoder_get_next(self._decoder))

\* The while loop of _seek, lines 132-133.
RECURSIVE _seek_advance(_, _)
_seek_advance(self, frame) ==
    IF self.__physical_frame < frame
    THEN Try(_get_next(self), LAMBDA g : _seek_advance(g.self, frame))
    ELSE Return(self, None)

\* _seek that never rewinds.
_seek_no_rewind(self, frame) ==
    IF self.__physical_frame = frame
    THEN Return(self, None)
    ELSE _seek_advance(self, frame)

\* _seek that rewinds whenever the decoder is not at the frame.
_seek_always_rewind(self, frame) ==
    IF self.__physical_frame = frame
    THEN Return(self, None)
    ELSE _seek_advance(_reset(self, TRUE), frame)

\* _seek(frame), lines 123-133.
_seek(self, frame) ==
    IF self.__physical_frame = frame
    THEN Return(self, None)
    ELSE _seek_advance(IF frame < self.__physical_frame
                       THEN _reset(self, TRUE)
                       ELSE self,
                       frame)

\* Lines 140-147 of load, with g the outcome of _get_next().
loaded_frame(g) ==
    Return([g.self EXCEPT !.info_timestamp = g.ret[2],
                          !.info_duration = g.ret[3],
                          !.__loaded = g.self.__logical_frame,
                          !.fp = g.ret[1]],
           None)

\* load without the guard on the loaded frame.
load_always(self) ==
    Try(_seek(self, self.__logical_frame),
        LAMBDA s : Try(_get_next(s.self), loaded_frame))

\* load(), lines 135-149.  The closing super().load() decodes the raw tile
\* from self.fp in the host's lazy-load hook and is left to the host.
load(self) ==
    IF self.__loaded # self.__logical_frame
    THEN Try(_seek(self, self.__logical_frame),
             LAMBDA s : Try(_get_next(s.self), loaded_frame))
    ELSE Return(self, None)

\* tell(), lines 151-152.
tell(self) == self.__logical_frame

\* The channels of the packed bgcolor in the order they are packed in.
unpack_background_argb(bgcolor) ==
    LET bg_a == IntOf(BitAnd(Shr(bgcolor, 24), Bits(255)))
        bg_r == IntOf(BitAnd(Shr(bgcolor, 16), Bits(255)))
        bg_g == IntOf(BitAnd(Shr(bgcolor, 8), Bits(255)))
        bg_b == IntOf(BitAnd(bgcolor, Bits(255)))
    IN  <<bg_a, bg_r, bg_g, bg_b>>

\* Lines 47-52 of _open: the background colour (r, g, b, a) of the packed
\* bgcolor.
unpack_background(bgcolor) ==
    LET bg_a == IntOf(BitAnd(Shr(bgcolor, 24), Bits(255)))
        bg_r == IntOf(BitAnd(Shr(bgcolor, 16), Bits(255)))
        bg_g == IntOf(BitAnd(Shr(bgcolor, 8), Bits(255)))
        bg_b == IntOf(BitAnd(bgcolor, Bits(255)))
    IN  <<bg_r, bg_g, bg_b, bg_a>>

\* self.info[key] = value: info is the function from the keys that are set.
set_info(info, key, value) ==
    [k \in (DOMAIN info) \cup {key} |-> IF k = key THEN value ELSE info[k]]

\* The key set to whatever get_chunk returned, b"" standing for None.
store_chunk_always(info, key, chunk) == set_info(info, key, chunk.v)

\* Lines 61-66 of _open, for one chunk: info[key] is set if chunk is true.
store_chunk(info, key, chunk) ==
    IF truth(chunk) THEN set_info(info, key, chunk.v) ELSE info

\* Lines 58-66 of _open: the three chunks read from decoder d.
store_chunks(info, d) ==
    store_chunk(store_chunk(store_chunk(info, "icc_profile", decoder_get_chunk(d, "ICCP")),
                            "exif", decoder_get_chunk(d, "EXIF")),
                "xmp", decoder_get_chunk(d, "XMP "))

\* A WebPImageFile before _open: no attribute of the cursor is set, info is
\* empty.  physical_trace lists the values __physical_frame is given during
\* the current operation.
Unopened ==
    [_decoder |-> NewDecoder(PlainFile(<<>>, "")),
     _n_frames |-> Unset,
     mode |-> "",
     fp |-> Unset,
     info |-> <<>>,
     info_timestamp |-> Unset,
     info_duration |-> Unset,
     __logical_frame |-> Unset,
     __physical_frame |-> Unset,
     __loaded |-> Unset,
     __timestamp |-> Unset,
     physical_trace |-> <<>>]

\* Lines 41-66 of _open, with d the decoder and i what get_info() returned.
opened(self, d, i) ==
    [self EXCEPT !._decoder = d,
                 !.info = store_chunks(set_info(@, "background",
                                                unpack_background(i.bgcolor)), d),
                 !._n_frames = i.frame_count,
                 !.mode = i.mode]

\* _open(), lines 41-70, on a file: the decoder session, the info read from
\* it, then _reset(reset=False) and seek(0).  (size, tile and info["loop"]
\* are only stored.)
_open(self, file) ==
    seek(_reset(opened(self, NewDecoder(file), decoder_get_info(NewDecoder(file))),
                FALSE),
         0)

(* ------------------- the encoder (_webp.WebPAnimEncoder) -------------- *)

\* An encoder session: calls is the trace of the calls made on it (the
\* constructor, every add, assemble); fail_in = k > 0 makes the k-th add
\* raise; null_result makes assemble return None.
WebPAnimEncoder(background, fail_in, null_result) ==
    [calls |-> <<[call |-> "WebPAnimEncoder", data |-> background,
                  timestamp |-> 0, mode |-> ""]>>,
     fail_in |-> fail_in,
     null_result |-> null_result]

\* enc.add(data, timestamp, width, height, mode, lossless, quality, method):
\* the call is recorded, and returns or raises.
encoder_add(enc, data, timestamp, mode) ==
    LET e2 == [enc EXCEPT !.fail_in = IF @ > 0 THEN @ - 1 ELSE 0,
                          !.calls = Append(@, [call |-> "add", data |-> data,
                                               timestamp |-> timestamp,
                                               mode |-> mode])]
    IN  IF enc.fail_in = 1 THEN Raise(e2, "EncoderError") ELSE Return(e2, None)

\* enc.assemble(icc_profile, exif): the assembled bytes (a token carrying
\* the number of frames added) or None.
encoder_assemble(enc) ==
    LET e2 == [enc EXCEPT !.calls = Append(@, [call |-> "assemble", data |-> None,
                                               timestamp |-> 0, mode |-> ""])]
    IN  [enc |-> e2,
         ret |-> IF enc.null_result THEN None ELSE <<"WEBP", Len(enc.calls) - 1>>]

(* ------------------------------ _save_all ------------------------------ *)

\* _VALID_WEBP_MODES, lines 5-8.
_VALID_WEBP_MODES == {"RGB", "RGBA"}

\* The names bound at line 221: the module's globals (lines 1-2, 5, 10, 17,
\* 25, 154, 255) and the locals of _save_all (lines 154-220).
NamesInScope ==
    {"Image", "ImageFile", "_webp", "BytesIO", "_VALID_WEBP_MODES",
     "_VP8_MODES_BY_IDENTIFIER", "_accept", "WebPImageFile", "_save_all", "_save",
     "im", "fp", "filename", "encoderinfo", "append_images", "background",
     "duration", "loop", "minimize_size", "kmin", "kmax", "allow_mixed",
     "verbose", "lossless", "quality", "method", "icc_profile", "exif",
     "bg_r", "bg_g", "bg_b", "bg_a", "enc", "frame_idx", "timestamp",
     "cur_idx", "ims", "nfr", "idx", "frame", "alpha"}

\* The background check with the upper limit of a channel included.
background_ok_inclusive(background) ==
    /\ background.is_seq
    /\ Len(background.v) = 4
    /\ \A i \in 1..4 : background.v[i] >= 0 /\ background.v[i] <= 256

\* The background check of lines 184-185.
background_ok(background) ==
    /\ background.is_seq
    /\ Len(background.v) = 4
    /\ \A i \in 1..4 : background.v[i] >= 0 /\ background.v[i] < 256

\* The packing of lines 187-188.
pack_background(v) ==
    LET bg_r == v[1]
        bg_g == v[2]
        bg_b == v[3]
        bg_a == v[4]
    IN  BitOr(BitOr(BitOr(Shl(Bits(bg_a), 24), Shl(Bits(bg_r), 16)), Shl(Bits(bg_g), 8)),
              Shl(Bits(bg_b), 0))

\* nfr of lines 208-211; source 0 is the primary image, whose n_frames
\* property (lines 76-80) is its frame count.
frames_of(st, j) ==
    IF j = 0 THEN st.im._n_frames
    ELSE IF st.append_images[j].has_n_frames THEN st.append_images[j].n_frames ELSE 1

\* The state of _save_all with its primary image as a call on it left it.
with_im(st, r) == [r EXCEPT !.self = [st EXCEPT !.im = r.self]]

\* The primary image as the frame to append (line 218).
primary_frame(r) ==
    Return(r.self, [data |-> r.self.im.fp, mode |-> r.self.im.mode, palettemode |-> "RGB"])

\* ims.seek(idx); ims.load() of lines 214-215.  The primary image is the
\* WebPImageFile; an appended image is any image, whose load may raise, and
\* whose frame idx holds the pixel bytes 1000 * j + idx.  source_calls
\* counts the seek-and-loads made on appended images.
seek_and_load(st, j, idx) ==
    IF j = 0
    THEN Try(with_im(st, Try(seek(st.im, idx), LAMBDA r : load(r.self))), primary_frame)
    ELSE IF st.load_fail_in = 1
         THEN Raise([st EXCEPT !.load_fail_in = 0, !.source_calls = @ + 1], "IOError")
         ELSE Return([st EXCEPT !.load_fail_in = IF @ > 0 THEN @ - 1 ELSE 0,
                                !.source_calls = @ + 1],
                     [data |-> 1000 * j + idx,
                      mode |-> st.append_images[j].mode,
                      palettemode |-> st.append_images[j].palettemode])

\* frame.tobytes(), line 225: the bytes of a frame, a sequence (holding the
\* token of the frame's pixels) that None is distinct from.
tobytes(frame) == <<frame.data>>

\* Lines 218-221: the frame to append.  convert() keeps the frame's pixels
\* and gives it the mode asked for.
supported_frame(st, ims) ==
    IF ~(ims.mode \in _VALID_WEBP_MODES)
    THEN IF "image" \in NamesInScope
         THEN Return(st, [ims EXCEPT !.mode = IF ims.palettemode \in {"RGBA", "LA"}
                                              THEN "RGBA" ELSE "RGB"])
         ELSE Raise(st, "NameError")
    ELSE Return(st, ims)

\* The running timestamp set to the frame's duration instead of advanced by it.
next_timestamp_assign(st) ==
    IF st.duration.is_seq
    THEN IF st.frame_idx < Len(st.duration.v)
         THEN Return([st EXCEPT !.timestamp = st.duration.v[st.frame_idx + 1]], None)
         ELSE Raise(st, "IndexError")
    ELSE Return([st EXCEPT !.timestamp = st.duration.n], None)

\* Line 235: the running timestamp after one more frame.
next_timestamp(st) ==
    IF st.duration.is_seq
    THEN IF st.frame_idx < Len(st.duration.v)
         THEN Return([st EXCEPT !.timestamp = @ + st.duration.v[st.frame_idx + 1]], None)
         ELSE Raise(st, "IndexError")
    ELSE Return([st EXCEPT !.timestamp = @ + st.duration.n], None)

\* The state of _save_all with its encoder as a call on it left it.
with_enc(st, r) == [r EXCEPT !.self = [st EXCEPT !.enc = r.self]]

\* Lines 224-232: enc.add of the frame.
append_frame(st, frame) ==
    with_enc(st, encoder_add(st.enc, tobytes(frame), st.timestamp, frame.mode))

\* Line 236.
next_frame_idx(r) == Return([r.self EXCEPT !.frame_idx = @ + 1], None)

\* The body of the inner loop, lines 214-236, for frame idx of source j.
add_frame(st, j, idx) ==
    Try(seek_and_load(st, j, idx),
        LAMBDA l : Try(supported_frame(l.self, l.ret),
        LAMBDA f : Try(append_frame(f.self, f.ret),
        LAMBDA a : Try(next_timestamp(a.self), next_frame_idx))))

\* The two loops of lines 206-236, from frame idx of source j on.
RECURSIVE add_frames(_, _, _)
add_frames(st, j, idx) ==
    IF j > Len(st.append_images)
    THEN Return(st, None)
    ELSE IF idx >= frames_of(st, j)
         THEN add_frames(st, j + 1, 0)
         ELSE Try(add_frame(st, j, idx), LAMBDA r : add_frames(r.self, j, idx + 1))

\* The data written before it is checked.
write_unchecked(st, d) ==
    IF d.ret = None
    THEN Raise([st EXCEPT !.enc = d.enc, !.written = Append(@, d.ret)], "IOError")
    ELSE Return([st EXCEPT !.enc = d.enc, !.written = Append(@, d.ret)], None)

\* Lines 249-253, with d the outcome of enc.assemble.
write(st, d) ==
    IF d.ret = None
    THEN Raise([st EXCEPT !.enc = d.enc], "IOError")
    ELSE Return([st EXCEPT !.enc = d.enc, !.written = Append(@, d.ret)], None)

\* assemble and write without the terminating append.
flush_and_write_no_sentinel(st) == write(st, encoder_assemble(st.enc))

\* Lines 241-253: the terminating append, assemble, and the write.
flush_and_write(st) ==
    Try(with_enc(st, encoder_add(st.enc, None, st.timestamp, "")),
        LAMBDA a : write(a.self, encoder_assemble(a.self.enc)))

\* The finally clause, line 239, after the loops ended with outcome r; an
\* exception raised in it replaces the one of the loops.
finally_seek(r, cur_idx, s) ==
    IF s.exc # "none"
    THEN Raise([r.self EXCEPT !.im = s.self], s.exc)
    ELSE [r EXCEPT !.self.im = s.self]

\* The seek back skipped when the loops raised.
seek_unless_raised(r, cur_idx, s) ==
    IF r.exc # "none" THEN r ELSE [r EXCEPT !.self.im = s.self]

\* The seek back only after loops that ended without error (no finally).
after_frames_no_finally(r, cur_idx) ==
    seek_unless_raised(r, cur_idx, seek(r.self.im, cur_idx))

\* try / finally, lines 205-239, with r the outcome of the loops.
after_frames(r, cur_idx) == finally_seek(r, cur_idx, seek(r.self.im, cur_idx))

\* Lines 201-239: the loops under try, and the finally clause.
try_add_frames(st, cur_idx) == after_frames(add_frames(st, 0, 0), cur_idx)

\* Before the encoder session exists.
NoSession == [calls |-> <<>>, fail_in |-> 0, null_result |-> FALSE]

\* The locals of _save_all at line 201: the options, the encoder session (on
\* which the add fault.add fails, and assemble if fault.assemble), the
\* primary image (whose decoder fails on advance fault.decode), the appended
\* images (of which load fault.load fails).
session(self, background, append_images, duration, fault) ==
    [im |-> [self EXCEPT !._decoder.fail_in = fault.decode],
     enc |-> WebPAnimEncoder(pack_background(background.v), fault.add, fault.assemble),
     append_images |-> append_images,
     duration |-> duration,
     load_fail_in |-> fault.load, source_calls |-> 0,
     timestamp |-> 0, frame_idx |-> 0, written |-> <<>>]

\* _save_all(im, fp, filename), lines 159-253, with the options background,
\* append_images and duration of im.encoderinfo; fault tells which call of a
\* collaborator fails.  The options that are only handed on to the encoder
\* (loop, minimize_size, kmin, kmax, allow_mixed, lossless, quality, method,
\* icc_profile, exif) are left out.
_save_all(self, background, append_images, duration, fault) ==
    IF ~background_ok(background)
    THEN Raise([im |-> self, enc |-> NoSession, append_images |-> append_images,
                duration |-> duration, load_fail_in |-> 0, source_calls |-> 0,
                timestamp |-> 0, frame_idx |-> 0, written |-> <<>>],
               "IOError")
    ELSE Try(try_add_frames(session(self, background, append_images, duration, fault),
                            tell(self)),
             LAMBDA r : flush_and_write(r.self))

(* ------------------------------ actions ------------------------------- *)

\* hist records the past of the run: seek_arg is the argument of the caller's
\* most recent successful seek, failed_since tells whether a load has failed
\* since that seek, ever_failed whether any load has failed.

\* The object between two operations: no failure pending in the decoder,
\* the call trace cleared.
Settled(self) ==
    [self EXCEPT !._decoder.fail_in = 0, !._decoder.calls = <<>>, !.physical_trace = <<>>]

\* What the caller observed of an operation: its argument, the exception it
\* raised, the decoder calls it made, the values it gave the physical frame,
\* the object before it, and how many seeks (at most 2 are counted) preceded
\* it since the last successful load.
Observed(op, arg, r, pre) ==
    [op |-> op, arg |-> arg, exc |-> r.exc, calls |-> r.self._decoder.calls,
     physical |-> r.self.physical_trace, pre |-> pre, seeks |-> hist.seeks]

Init ==
    /\ \E n \in 1..MaxFrames : \E durs \in [1..n -> 1..MaxDur] :
           im = Settled(_open(Unopened, PlainFile(durs, "RGBA")).self)
    /\ last = [op |-> "open", arg |-> 0, exc |-> "none", calls |-> <<>>,
               physical |-> <<>>, pre |-> im, seeks |-> 0]
    /\ hist = [seek_arg |-> 0, failed_since |-> FALSE, ever_failed |-> FALSE, seeks |-> 0]

\* The state after a seek(n) by the caller with outcome r.
Sought(n, r) ==
    /\ im' = Settled(r.self)
    /\ last' = Observed("seek", n, r, im)
    /\ hist' = IF r.exc = "none"
               THEN [hist EXCEPT !.seek_arg = n, !.failed_since = FALSE,
                                 !.seeks = IF @ < 2 THEN @ + 1 ELSE @]
               ELSE hist

\* The caller seeks to any index, in range or not.
Seek == \E n \in -1..(MaxFrames + 1) : Sought(n, seek(im, n))

\* The state after a load() by the caller with outcome r.
Loaded(f, r) ==
    /\ im' = Settled(r.self)
    /\ last' = Observed("load", f, r, im)
    /\ hist' = IF r.exc = "none"
               THEN [hist EXCEPT !.seeks = 0]
               ELSE [hist EXCEPT !.failed_since = TRUE, !.ever_failed = TRUE]

\* The caller loads; the decoder fails on the f-th advance of this load
\* (f = 0: it does not fail).
Load == \E f \in 0..im._n_frames : Loaded(f, load([im EXCEPT !._decoder.fail_in = f]))

Next == Seek \/ Load

Spec == Init /\ [][Next]_vars

(* ----------------------- the assembler's actions ---------------------- *)

\* Largest number of images in append_images.
MaxAppend == 1

\* The images that may be appended: a still image without an n_frames
\* attribute or an image of 2 frames; in a supported mode or in palette mode
\* (with or without alpha in the palette).
AppendedImages ==
    { [has_n_frames |-> h, n_frames |-> IF h THEN 2 ELSE 0,
       mode |-> m[1], palettemode |-> m[2]] :
        h \in BOOLEAN,
        m \in {<<"RGB", "RGB">>, <<"RGBA", "RGB">>, <<"P", "RGB">>, <<"P", "RGBA">>} }

AppendImagesInputs ==
    UNION { [1..k -> AppendedImages] : k \in 0..MaxAppend }

\* The number of frames of a list of appended images.
RECURSIVE TotalFrames(_)
TotalFrames(images) ==
    IF images = <<>> THEN 0
    ELSE (IF Head(images).has_n_frames THEN Head(images).n_frames ELSE 1)
         + TotalFrames(Tail(images))

\* The duration option: the number n, or the list or tuple v.
Scalar(n) == [is_seq |-> FALSE, v |-> <<>>, n |-> n]
Listed(v) == [is_seq |-> TRUE, v |-> v, n |-> 0]

\* The duration option over N frames: a scalar, or a sequence with one
\* entry for each frame or one entry too few.
DurationInputs(N) ==
    { Scalar(d) : d \in {0, 100} }
    \cup
    { Listed([i \in 1..L |-> 10 * i]) :
        L \in {N} \cup (IF N > 0 THEN {N - 1} ELSE {}) }

\* The background option: a valid one, and ones that are out of range, of
\* the wrong length or not a list or tuple.
BackgroundInputs ==
    { [is_seq |-> TRUE, v |-> v] :
        v \in {<<255, 128, 0, 1>>, <<256, 0, 0, 0>>, <<0, 0, -1, 0>>, <<0, 0, 0>>} }
    \cup { [is_seq |-> FALSE, v |-> <<>>] }

\* At most one call of a collaborator fails during one _save_all: the k-th
\* advance of the primary image's decoder, the k-th load of an appended
\* frame, the k-th enc.add, or assemble.  (The first failure ends the call.)
NoFault == [decode |-> 0, load |-> 0, add |-> 0, assemble |-> FALSE]

FaultInputs(n_primary, n_appended) ==
    {NoFault}
    \cup { [NoFault EXCEPT !.decode = k] : k \in 1..n_primary }
    \cup { [NoFault EXCEPT !.load = k] : k \in 1..n_appended }
    \cup { [NoFault EXCEPT !.add = k] : k \in 1..(n_primary + n_appended + 1) }
    \cup { [NoFault EXCEPT !.assemble = TRUE] }

\* The image after a load (if loads; the decoder failing on advance f) and
\* a seek to b.
Positioned(self, loads, f, b) ==
    Settled(seek(IF loads THEN load([self EXCEPT !._decoder.fail_in = f]).self ELSE self,
                 b).self)

\* The cursor positions _save_all may find the primary image in: opened,
\* then possibly a seek, a load (failing or not) and another seek.  The
\* decoder's timing and the container's mode play no part in the assembler.
InitSave ==
    /\ \E n \in 1..MaxFrames :
         \E a \in 0..(n - 1) : \E b \in 0..(n - 1) : \E f \in 0..n :
           \E loads \in BOOLEAN :
             im = Positioned(seek(_open(Unopened,
                                        PlainFile([k \in 1..n |-> 1], "RGBA")).self,
                                  a).self,
                             loads, f, b)
    /\ last = [op |-> "open", arg |-> 0, exc |-> "none", calls |-> <<>>,
               physical |-> <<>>, pre |-> im, seeks |-> 0]
    /\ hist = [seek_arg |-> tell(im), failed_since |-> FALSE, ever_failed |-> FALSE,
               seeks |-> 0]

\* What the caller observed of a call of _save_all with outcome r: the
\* options, the exception, the calls on the primary image's decoder, on the
\* appended images and on the encoder session, what was written to fp, the
\* image before the call.
ObservedSave(background, append_images, duration, r, pre) ==
    [op |-> "_save_all",
     arg |-> [background |-> background, append_images |-> append_images,
              duration |-> duration],
     exc |-> r.exc,
     calls |-> r.self.im._decoder.calls,
     physical |-> r.self.im.physical_trace,
     pre |-> pre,
     seeks |-> 0,
     source_calls |-> r.self.source_calls,
     enc_calls |-> r.self.enc.calls,
     written |-> r.self.written]

\* The state after a call of _save_all with outcome r.
Saved(background, append_images, duration, r) ==
    /\ im' = Settled(r.self.im)
    /\ last' = ObservedSave(background, append_images, duration, r, im)
    /\ hist' = hist

\* One call of _save_all on the image (an invalid background is tried with
\* every list of appended images, the duration at its default and no
\* collaborator failing).
SaveAll ==
    /\ last.op # "_save_all"
    /\ \E background \in BackgroundInputs :
       \E append_images \in AppendImagesInputs :
       \E duration \in IF background_ok(background)
                       THEN DurationInputs(im._n_frames + TotalFrames(append_images))
                       ELSE {Scalar(0)} :
       \E fault \in IF background_ok(background)
                    THEN FaultInputs(im._n_frames, TotalFrames(append_images))
                    ELSE {NoFault} :
         Saved(background, append_images, duration,
               _save_all(im, background, append_images, duration, fault))

NextSave == SaveAll

SpecSave == InitSave /\ [][NextSave]_vars

(* --------------------------- opening a file --------------------------- *)

\* The values of a channel of the background colour.
Channels == {0, 1, 128, 255}

\* The background colours a file is assembled with.
BackgroundColours == { <<r, g, b, a>> : r \in Channels, g \in Channels,
                                        b \in Channels, a \in Channels }

\* What a file may hold of the chunk name: nothing, a chunk without a
\* payload, a chunk with a payload (that tells the name).
ChunkInputs(name) ==
    {Absent, Chunk(<<>>),
     Chunk(<<(CASE name = "ICCP" -> 73 [] name = "EXIF" -> 69 [] OTHER -> 88), 0>>)}

ChunksInputs ==
    { [c \in ChunkNames |-> IF c = "ICCP" THEN i ELSE IF c = "EXIF" THEN e ELSE x] :
        i \in ChunkInputs("ICCP"), e \in ChunkInputs("EXIF"), x \in ChunkInputs("XMP ") }

\* Before a file is opened: the image object is constructed, _open not run.
InitOpen ==
    /\ im = Unopened
    /\ last = [op |-> "none", arg |-> <<>>, exc |-> "none", physical |-> <<>>]
    /\ hist = [seek_arg |-> 0, failed_since |-> FALSE, ever_failed |-> FALSE, seeks |-> 0]

\* The state after _open on file with outcome r; background is the colour
\* the file was assembled with.
Opened(file, background, r) ==
    /\ im' = Settled(r.self)
    /\ last' = [op |-> "_open", arg |-> [file |-> file, background |-> background],
                exc |-> r.exc, physical |-> r.self.physical_trace]
    /\ hist' = hist

\* The host opens a file of n frames that an assembler wrote with some
\* background colour (packed by lines 187-188) and some metadata chunks.
Open ==
    /\ last.op = "none"
    /\ \E n \in 1..MaxFrames :
       \E background \in BackgroundColours : \E chunks \in ChunksInputs :
         Opened(File([k \in 1..n |-> 1], "RGBA", pack_background(background), chunks),
                background,
                _open(im, File([k \in 1..n |-> 1], "RGBA", pack_background(background),
                               chunks)))

NextOpen == Open

SpecOpen == InitOpen /\ [][NextOpen]_vars

(* ------------------------- the prober's actions ---------------------- *)

\* Longest prefix handed to _accept.
MaxPrefix == 17

\* The 4-byte blocks a prefix is made of: bytes 0..4 (b"RIFF", b"RIFX",
\* b"WEBP"), bytes 4..8 (the file size), bytes 8..12 (b"WEBP", b"WEBX",
\* b"RIFF"), bytes 12..16 (the three identifiers, b"VP8M", b"vp8 ", b"WEBP",
\* zeros), and the bytes after them.
FirstBlocks == {RIFF, <<82, 73, 70, 88>>, WEBP}
SizeBlocks == {<<0, 0, 0, 0>>, WEBP, <<255, 255, 255, 255>>}
SecondBlocks == {WEBP, <<87, 69, 66, 88>>, RIFF}
TagBlocks == {VP8_, VP8X, VP8L, <<86, 80, 56, 77>>, <<118, 112, 56, 32>>, WEBP,
              <<0, 0, 0, 0>>}
RestBlock == <<1, 2, 3, 4>>

\* The prefixes: the first n bytes of such files, n up to MaxPrefix.
PrefixInputs ==
    { Slice(b0 \o b1 \o b2 \o b3 \o RestBlock \o RestBlock, 0, n) :
        b0 \in FirstBlocks, b1 \in SizeBlocks, b2 \in SecondBlocks, b3 \in TagBlocks,
        n \in 0..MaxPrefix }

\* Before the host probes a file: no image object is open.
InitAccept ==
    /\ im = Unopened
    /\ last = [op |-> "none", arg |-> <<>>, exc |-> "none", ret |-> FALSE]
    /\ hist = [seek_arg |-> 0, failed_since |-> FALSE, ever_failed |-> FALSE, seeks |-> 0]

\* The state after _accept(prefix) with outcome r.
Accepted(prefix, r) ==
    /\ last' = [op |-> "_accept", arg |-> prefix, exc |-> r.exc, ret |-> r.ret]
    /\ UNCHANGED <<im, hist>>

\* The host probes the first bytes of a file.
Accept ==
    /\ last.op = "none"
    /\ \E prefix \in PrefixInputs : Accepted(prefix, _accept(prefix))

NextAccept == Accept

SpecAccept == InitAccept /\ [][NextAccept]_vars

(* ------------------------- claims on the cursor ----------------------- *)

\* The decoder's frame k (from 0) and the end-timestamp of the frame before it.
FrameData(self, k) == self._decoder.frames[k + 1].data
FrameEnd(self, k) == IF k < 0 THEN 0 ELSE self._decoder.frames[k + 1].timestamp

\* n calls of get_next in a row.
Advances(n) == [i \in 1..n |-> "get_next"]

LoadReturned == last.op = "load" /\ last.exc = "none"
LoadRaised == last.op = "load" /\ last.exc # "none"

\* The frame and the timing a successful load must expose.
ExposesLogicalFrame ==
    /\ im.fp = FrameData(im, tell(im))
    /\ im.info_timestamp = FrameEnd(im, tell(im) - 1)
    /\ im.info_duration = FrameEnd(im, tell(im)) - FrameEnd(im, tell(im) - 1)

\* C1: every load() that returns successfully exposes the pixel bytes of the
\* frame whose index is tell(), and leaves loaded_frame = logical_frame,
\* whatever seeks (forward, backward, skipping) and loads came before.
C1_LoadExposesLogicalFrame ==
    LoadReturned =>
        /\ im.fp = FrameData(im, tell(im))
        /\ im.__loaded = im.__logical_frame

\* C1 witness: a load succeeded after a backward seek to a frame other than
\* 0, so the decoder was rewound and skipped frames.
C1_Witness ==
    /\ LoadReturned
    /\ last.pre.__physical_frame > tell(im)
    /\ tell(im) >= 1
    /\ last.pre.__loaded # last.pre.__logical_frame

\* C2: seek(n) with 0 <= n < frame_count succeeds and tell() then returns n;
\* seek(n) with n >= frame_count or n < 0 fails with the end-of-sequence error.
C2_SeekTell ==
    last.op = "seek" =>
        IF 0 <= last.arg /\ last.arg < im._n_frames
        THEN last.exc = "none" /\ tell(im) = last.arg
        ELSE last.exc = "EOFError"

\* C2 witness: seek(frame_count) has just failed.
C2_Witness ==
    last.op = "seek" /\ last.arg = im._n_frames /\ last.exc = "EOFError"

\* C3: every successful load of frame k reports start time end[k-1] and
\* duration end[k] - end[k-1] (end[-1] = 0), whatever the order of the
\* preceding seeks and loads.
C3_DurationLaw ==
    LoadReturned =>
        /\ im.info_timestamp = FrameEnd(im, tell(im) - 1)
        /\ im.info_duration = FrameEnd(im, tell(im)) - FrameEnd(im, tell(im) - 1)

\* C3 witness: a frame other than 0 was loaded through a rewind.
C3_Witness ==
    /\ LoadReturned
    /\ tell(im) >= 1
    /\ Len(last.calls) > 0 /\ last.calls[1] = "reset"

\* C4: a load during which a decoder advance returns None resets the decoder,
\* leaves logical = 0, physical = 0, loaded = none, timestamp = 0 and raises
\* the end-of-sequence error; and the cursor is not wedged: every load that
\* succeeds after such a failure exposes the right frame and timing.
C4_FailureRecovers ==
    /\ LoadRaised =>
        /\ last.exc = "EOFError"
        /\ last.calls[Len(last.calls)] = "reset"
        /\ im._decoder.pos = 0
        /\ im.__logical_frame = 0
        /\ im.__physical_frame = 0
        /\ im.__loaded = -1
        /\ im.__timestamp = 0
    /\ (hist.ever_failed /\ LoadReturned) =>
        /\ im.__loaded = im.__logical_frame
        /\ ExposesLogicalFrame

\* C4 witness: after a failed load, a later load of a frame other than 0
\* succeeded.
C4_Witness ==
    hist.ever_failed /\ LoadReturned /\ tell(im) >= 1 /\ Len(last.calls) > 0

\* C5 as claimed: tell() returns the argument of the caller's most recent
\* successful seek, also after loads that failed.
C5_TellIsLastSeek == tell(im) = hist.seek_arg

\* C5, amended: tell() returns the argument of the caller's most recent
\* successful seek unless a load has failed with a decode failure since that
\* seek, and then it returns 0.
C5_TellIsLastSeekOrZero ==
    tell(im) = IF hist.failed_since THEN 0 ELSE hist.seek_arg

\* C5 witness: a load failed after a seek to a frame other than 0.
C5_Witness ==
    hist.failed_since /\ hist.seek_arg > 0 /\ LoadRaised

\* C6: load() with loaded_frame = logical_frame makes no decoder call and
\* leaves the exposed pixel bytes, timestamp and duration unchanged.
C6_LoadIdempotent ==
    (last.op = "load" /\ last.pre.__loaded = last.pre.__logical_frame) =>
        /\ last.exc = "none"
        /\ last.calls = <<>>
        /\ im.fp = last.pre.fp
        /\ im.info_timestamp = last.pre.info_timestamp
        /\ im.info_duration = last.pre.info_duration
        /\ im._decoder.pos = last.pre._decoder.pos

\* C6 witness: a load of the loaded frame after seeking away and back.
C6_Witness ==
    /\ last.op = "load"
    /\ last.pre.__loaded = last.pre.__logical_frame
    /\ last.seeks = 2

\* C7: a successful load of a frame t that is not loaded, with p frames
\* consumed by the decoder, makes exactly t - p + 1 advances and no reset if
\* t >= p, and exactly one reset followed by t + 1 advances if t < p.
C7_LoadCost ==
    (LoadReturned /\ last.pre.__loaded # last.pre.__logical_frame) =>
        LET t == last.pre.__logical_frame
            p == last.pre._decoder.pos
        IN  last.calls = IF t >= p
                         THEN Advances(t - p + 1)
                         ELSE <<"reset">> \o Advances(t + 1)

\* C7 witness: a backward load (t < p) of a frame other than 0, and so a
\* reset followed by at least two advances.
C7_Witness ==
    /\ LoadReturned
    /\ last.pre.__loaded # last.pre.__logical_frame
    /\ last.pre.__logical_frame < last.pre._decoder.pos
    /\ last.pre.__logical_frame >= 1

\* C16: seek(n) changes only logical_frame: a successful seek leaves
\* physical_frame, loaded_frame, the cumulative timestamp, the decoder and
\* the exposed pixel data and timing unchanged and makes no decoder call; a
\* seek that fails with EOFError leaves the whole cursor unchanged.
C16_SeekOnlyLogical ==
    last.op = "seek" =>
        /\ last.calls = <<>>
        /\ last.physical = <<>>
        /\ im = IF last.exc = "none"
                THEN [last.pre EXCEPT !.__logical_frame = last.arg]
                ELSE last.pre

\* C16 witness: a seek away from a loaded frame succeeded.
C16_Witness ==
    /\ last.op = "seek" /\ last.exc = "none"
    /\ last.pre.__loaded = last.pre.__logical_frame
    /\ last.arg # last.pre.__logical_frame
    /\ im.__loaded = last.pre.__loaded
    /\ im.fp # -1

\* The value of physical_frame before its i-th assignment of the last
\* operation.
PhysicalBefore(i) ==
    IF i = 1 THEN last.pre.__physical_frame ELSE last.physical[i - 1]

\* C17: physical_frame >= 0 in every reachable cursor state, and each step
\* of an operation (a decoder advance, a reset) either increases it by one
\* or sets it to 0; it never decreases to a value other than 0.
C17_PhysicalMonotone ==
    /\ im.__physical_frame >= 0
    /\ \A i \in 1..Len(last.physical) :
          /\ last.physical[i] >= 0
          /\ \/ last.physical[i] = PhysicalBefore(i) + 1
             \/ last.physical[i] = 0
    /\ last.physical # <<>> => im.__physical_frame = last.physical[Len(last.physical)]

\* C17 witness: a load that went back: the physical frame was reset and then
\* advanced to a value other than 0 below the one before the load.
C17_Witness ==
    /\ LoadReturned
    /\ im.__physical_frame < last.pre.__physical_frame
    /\ im.__physical_frame >= 2
    /\ last.physical[1] = 0

\* Whether some get_next() of the calls from the i-th on is made with all n
\* frames consumed, pos frames being consumed before the i-th call.
RECURSIVE PastEnd(_, _, _, _)
PastEnd(calls, i, pos, n) ==
    IF i > Len(calls) THEN FALSE
    ELSE IF calls[i] = "reset" THEN PastEnd(calls, i + 1, 0, n)
    ELSE pos >= n \/ PastEnd(calls, i + 1, pos + 1, n)

\* C19: between public operations the number of frames the decoder has
\* consumed since its last reset equals physical_frame, and physical_frame
\* <= frame_count; the decoder is never asked to advance when it has
\* consumed all frame_count frames, so a load during which the decoder does
\* not fail succeeds; and after a successful load physical_frame =
\* loaded_frame + 1.
C19_DecoderInStep ==
    /\ im._decoder.pos = im.__physical_frame
    /\ im.__physical_frame <= im._n_frames
    /\ last.op = "load" =>
          /\ ~PastEnd(last.calls, 1, last.pre._decoder.pos, im._n_frames)
          /\ last.arg = 0 => last.exc = "none"
    /\ LoadReturned => im.__physical_frame = im.__loaded + 1

\* C19 witness: with every frame of a file of at least two frames consumed
\* by the decoder, an earlier frame other than 0 was loaded: the decoder was
\* rewound, not advanced.
C19_Witness ==
    /\ LoadReturned
    /\ im._n_frames >= 2
    /\ last.pre._decoder.pos = im._n_frames
    /\ Len(last.calls) > 0 /\ last.calls[1] = "reset"
    /\ im.__loaded >= 1

(* ----------------------- claims on the assembler ---------------------- *)

SaveAllDone == last.op = "_save_all"

\* The enc.add calls of the last _save_all, and whether it called assemble.
Adds == SelectSeq(last.enc_calls, LAMBDA c : c.call = "add")
AssembleCalled == \E i \in 1..Len(last.enc_calls) : last.enc_calls[i].call = "assemble"

IsPrefix(s, t) == Len(s) <= Len(t) /\ \A i \in 1..Len(s) : s[i] = t[i]

\* The bytes of the frames of the images [primary] + append_images, image by
\* image and frame by frame, and then the None of the terminating append.
RECURSIVE AppendedPayloads(_, _)
AppendedPayloads(images, j) ==
    IF j > Len(images) THEN <<>>
    ELSE [i \in 1..(IF images[j].has_n_frames THEN images[j].n_frames ELSE 1) |->
             <<1000 * j + (i - 1)>>]
         \o AppendedPayloads(images, j + 1)

ExpectedPayloads ==
    [k \in 1..last.pre._n_frames |-> <<FrameData(last.pre, k - 1)>>]
    \o AppendedPayloads(last.arg.append_images, 1)
    \o <<None>>

\* The sum of the configured durations of the emitted frames 0..k-1.
RECURSIVE DurationSum(_, _)
DurationSum(duration, k) ==
    IF k = 0 THEN 0
    ELSE DurationSum(duration, k - 1)
         + (IF duration.is_seq THEN duration.v[k] ELSE duration.n)

\* C8: after _save_all has returned or raised, whatever failed, tell() of
\* the primary image equals its value before the call.
C8_CursorRestored ==
    SaveAllDone => tell(im) = tell(last.pre)

\* C8 witness: _save_all raised on a decode failure of the primary image,
\* which had been seeked to a frame other than 0.
C8_Witness ==
    SaveAllDone /\ last.exc = "EOFError" /\ tell(last.pre) >= 1

\* C9: an assembly of N frames that reaches assemble has issued exactly N + 1
\* enc.add calls: the N frames in the order of [primary] + append_images,
\* frame by frame, then one append with a None payload, and assemble right
\* after it; a call that ends early has issued a prefix of these; a call that
\* returns has reached assemble.
C9_AppendCalls ==
    SaveAllDone =>
        /\ IsPrefix([i \in 1..Len(Adds) |-> Adds[i].data], ExpectedPayloads)
        /\ AssembleCalled =>
            /\ Len(Adds) = last.pre._n_frames + TotalFrames(last.arg.append_images) + 1
            /\ [i \in 1..Len(Adds) |-> Adds[i].data] = ExpectedPayloads
            /\ last.enc_calls[Len(last.enc_calls)].call = "assemble"
            /\ last.enc_calls[Len(last.enc_calls) - 1].call = "add"
            /\ last.enc_calls[Len(last.enc_calls) - 1].data = None
            /\ Len(last.enc_calls) = Len(Adds) + 2
        /\ last.exc = "none" => AssembleCalled

\* C9 witness: two 1-frame sources were assembled with exactly 3 appends.
C9_Witness ==
    /\ SaveAllDone /\ last.exc = "none"
    /\ last.pre._n_frames = 1
    /\ Len(last.arg.append_images) = 1
    /\ Len(Adds) = 3

\* C10: the k-th enc.add call (k from 0) carries the sum of the configured
\* durations of the emitted frames 0..k-1 (the scalar, or duration[i] of a
\* sequence); the terminating append is the N-th and carries the sum over
\* all N frames.
C10_Timestamps ==
    SaveAllDone =>
        \A k \in 1..Len(Adds) :
            Adds[k].timestamp = DurationSum(last.arg.duration, k - 1)

\* C10 witness: at least three frames and the terminating append were
\* issued under a duration given as a sequence.
C10_Witness ==
    /\ SaveAllDone /\ last.exc = "none"
    /\ last.arg.duration.is_seq
    /\ Len(Adds) >= 4

\* A background option as the assembler requires it: a list or tuple of 4
\* channels, each in 0..255.
ValidBackground(b) ==
    /\ b.is_seq
    /\ Len(b.v) = 4
    /\ \A i \in 1..4 : b.v[i] \in 0..255

\* C11: a background option that is not a list or tuple of 4 channels in
\* 0..255 makes _save_all raise IOError before any encoding work: no encoder
\* session is constructed, no frame is appended, no source image (the
\* primary one or an appended one) is seeked or loaded, and nothing is
\* written to the output.
C11_InvalidBackground ==
    (SaveAllDone /\ ~ValidBackground(last.arg.background)) =>
        /\ last.exc = "IOError"
        /\ last.enc_calls = <<>>
        /\ last.calls = <<>>
        /\ last.physical = <<>>
        /\ last.source_calls = 0
        /\ last.written = <<>>
        /\ im = last.pre

\* C11 witness: _save_all was called with background (256, 0, 0, 0) and an
\* appended image.
C11_Witness ==
    /\ SaveAllDone
    /\ last.arg.background.v = <<256, 0, 0, 0>>
    /\ Len(last.arg.append_images) >= 1
    /\ last.exc = "IOError"

\* The enc.add calls of the last _save_all that carry a frame.
RealAdds == SelectSeq(Adds, LAMBDA c : c.data # None)

\* The errors a call of _save_all may end with when a collaborator fails
\* (the decoder, an appended image, the encoder) or the duration sequence
\* is too short.
CollaboratorErrors == {"EOFError", "IOError", "EncoderError", "IndexError"}

\* Whether some appended image is in a layout outside {RGB, RGBA}.
HasUnsupported(images) ==
    \E j \in 1..Len(images) : images[j].mode \notin {"RGB", "RGBA"}

\* C12 as claimed: a sub-frame whose layout is not in {RGB, RGBA} is
\* converted and then appended, so the assembly of a source in an
\* unsupported layout proceeds without an error of its own (it ends only
\* with the error of a failing collaborator, if any), and every append of a
\* real frame carries a layout in {RGB, RGBA}.
C12_UnsupportedConverted ==
    (SaveAllDone /\ HasUnsupported(last.arg.append_images)) =>
        /\ last.exc \in {"none"} \cup CollaboratorErrors
        /\ \A i \in 1..Len(RealAdds) : RealAdds[i].mode \in {"RGB", "RGBA"}

\* The terminating appends (a None payload) of the last _save_all.
Sentinels == SelectSeq(Adds, LAMBDA c : c.data = None)

\* C18: _save_all writes to the output exactly once, what assemble
\* returned, and only after the terminating append and a non-null assemble;
\* on every failure path (invalid background, an error while iterating the
\* frames, a failing terminating append, a null assembly) nothing is
\* written; and after an error while iterating neither the terminating
\* append nor assemble is called.
C18_WriteOnce ==
    SaveAllDone =>
        /\ last.exc # "none" => last.written = <<>>
        /\ last.exc = "none" =>
              /\ last.written = <<<<"WEBP", Len(Adds)>>>>
              /\ AssembleCalled
        /\ AssembleCalled =>
              /\ last.enc_calls[Len(last.enc_calls)].call = "assemble"
              /\ last.enc_calls[Len(last.enc_calls) - 1].call = "add"
              /\ last.enc_calls[Len(last.enc_calls) - 1].data = None
        /\ Len(Sentinels) <= 1
        /\ Sentinels # <<>> =>
              /\ Len(RealAdds) = last.pre._n_frames + TotalFrames(last.arg.append_images)
              /\ last.exc \notin {"EOFError", "NameError", "IndexError"}
              /\ Adds[Len(Adds)].data = None
        /\ last.exc \in {"EOFError", "NameError", "IndexError"} => ~AssembleCalled

\* C18 witness: assemble returned None after the frames of two sources and
\* the terminating append: IOError, nothing written.
C18_Witness ==
    /\ SaveAllDone
    /\ last.exc = "IOError"
    /\ AssembleCalled
    /\ Len(last.arg.append_images) = 1
    /\ last.written = <<>>

(* ------------------------- claims on the prober ----------------------- *)

ProbeDone == last.op = "_accept"

\* C13: _accept returns false, and raises nothing, for every byte string
\* shorter than 16 bytes, the empty one and those of 12..15 bytes whose
\* first 12 bytes carry both magic sequences included.
C13_ShortPrefixRejected ==
    (ProbeDone /\ Len(last.arg) < 16) =>
        /\ last.exc = "none"
        /\ last.ret = FALSE

\* C13 witness: a prefix of 12..15 bytes with both magic sequences and the
\* beginning of a recognized identifier was probed.
C13_Witness ==
    /\ ProbeDone
    /\ Len(last.arg) \in 13..15
    /\ SubSeq(last.arg, 1, 4) = <<82, 73, 70, 70>>
    /\ SubSeq(last.arg, 9, 12) = <<87, 69, 66, 80>>
    /\ last.arg[13] = 86

\* The prefix with bytes 4..8 replaced.
WithSize(prefix, size) ==
    SubSeq(prefix, 1, 4) \o size \o SubSeq(prefix, 9, Len(prefix))

\* C14: for a prefix of at least 16 bytes, _accept returns true if and only
\* if bytes 0..4 are b"RIFF", bytes 8..12 are b"WEBP" and bytes 12..16 are
\* one of exactly b"VP8 ", b"VP8X", b"VP8L"; bytes 4..8 do not affect the
\* result.
C14_AcceptsExactly ==
    (ProbeDone /\ Len(last.arg) >= 16) =>
        /\ last.exc = "none"
        /\ last.ret =
              (/\ SubSeq(last.arg, 1, 4) = <<82, 73, 70, 70>>
               /\ SubSeq(last.arg, 9, 12) = <<87, 69, 66, 80>>
               /\ SubSeq(last.arg, 13, 16) \in
                      {<<86, 80, 56, 32>>, <<86, 80, 56, 88>>, <<86, 80, 56, 76>>})
        /\ \A size \in SizeBlocks \cup {<<82, 73, 70, 70>>} :
              _accept(WithSize(last.arg, size)).ret = last.ret

\* C14 witness: a prefix longer than 16 bytes with the lossless identifier
\* and a non-zero size field was accepted.
C14_Witness ==
    /\ ProbeDone
    /\ Len(last.arg) > 16
    /\ SubSeq(last.arg, 13, 16) = <<86, 80, 56, 76>>
    /\ SubSeq(last.arg, 5, 8) # <<0, 0, 0, 0>>
    /\ last.ret = TRUE

(* ------------------------ claims on opening a file -------------------- *)

OpenDone == last.op = "_open"

\* The info key each chunk name is stored under.
InfoKey(name) ==
    CASE name = "ICCP" -> "icc_profile" [] name = "EXIF" -> "exif" [] OTHER -> "xmp"

\* The cursor as _open must leave it.
CursorInitialized ==
    /\ im.__logical_frame = 0
    /\ im.__physical_frame = 0
    /\ im.__loaded = -1
    /\ im.__timestamp = 0
    /\ im._decoder.pos = 0

\* C15 as claimed: at open, for each chunk name ICCP, EXIF, "XMP ": if the
\* decoder reports the chunk as present its raw bytes are stored under
\* icc_profile, exif, xmp; if it is absent the key is not set; the open does
\* not fail and the cursor is initialized.
C15_ChunksStoredIfPresent ==
    OpenDone =>
        /\ last.exc = "none"
        /\ CursorInitialized
        /\ \A c \in {"ICCP", "EXIF", "XMP "} :
              IF last.arg.file.chunks[c].is_none
              THEN InfoKey(c) \notin DOMAIN im.info
              ELSE /\ InfoKey(c) \in DOMAIN im.info
                   /\ im.info[InfoKey(c)] = last.arg.file.chunks[c].v

\* C15, amended: the raw bytes of a chunk are stored under its key if the
\* chunk is present with a payload that is not empty; the key is not set
\* if the chunk is absent or its payload is empty; the open does not fail
\* and the cursor is initialized.
C15_ChunksStoredIfNotEmpty ==
    OpenDone =>
        /\ last.exc = "none"
        /\ CursorInitialized
        /\ \A c \in {"ICCP", "EXIF", "XMP "} :
              IF last.arg.file.chunks[c].is_none \/ last.arg.file.chunks[c].v = <<>>
              THEN InfoKey(c) \notin DOMAIN im.info
              ELSE /\ InfoKey(c) \in DOMAIN im.info
                   /\ im.info[InfoKey(c)] = last.arg.file.chunks[c].v

\* C15 witness: a file was opened that holds an ICCP chunk with a payload,
\* no EXIF chunk and an "XMP " chunk without payload.
C15_Witness ==
    /\ OpenDone
    /\ last.arg.file.chunks["ICCP"] = [is_none |-> FALSE, v |-> <<73, 0>>]
    /\ last.arg.file.chunks["EXIF"].is_none
    /\ last.arg.file.chunks["XMP "] = [is_none |-> FALSE, v |-> <<>>]
    /\ DOMAIN im.info = {"background", "icc_profile"}

\* C20: for every (r, g, b, a) with each channel in 0..255, packing it as
\* the assembler does (a<<24 | r<<16 | g<<8 | b) and unpacking that value as
\* _open does yields info["background"] = (r, g, b, a), in the same channel
\* order; and the packed value fits in 32 bits.
C20_BackgroundRoundTrip ==
    OpenDone =>
        /\ im.info["background"] = last.arg.background
        /\ Len(last.arg.file.bgcolor) <= 32

\* C20 witness: a file was opened whose background has four different
\* channels, the alpha channel with its top bit set.
C20_Witness ==
    /\ OpenDone
    /\ last.arg.background = <<1, 128, 0, 255>>
    /\ Len(last.arg.file.bgcolor) = 32
    /\ im.info["background"] = <<1, 128, 0, 255>>

====
